---- MODULE Spec2Model ----
(***************************************************************************)
(* Model of Whatson.py: the schedule normalizer (build_event_list,         *)
(* filter_and_sort_events), the text layout (build_text_lines,             *)
(* render_text_image) and the hourly generate-then-swap cycle              *)
(* (create_schedule_cycle and the first-run generation of __main__).       *)
(*                                                                         *)
(* Text is a sequence of one-character strings, so that strip(), lower(),  *)
(* startswith(), "in" and string comparison are computed, not assumed.     *)
(* Instants are minutes since 00:00 of day 0 in Europe/London.             *)
(***************************************************************************)
EXTENDS Integers, Sequences, FiniteSets, TLC

VARIABLES
    pc,          \* position of the process in __main__ / create_schedule_cycle
    run,         \* "initial" (first-run generation of __main__) or "cycle"
    now,         \* the wall clock, in minutes
    published,   \* the file at VIDEO_FILENAME
    staging,     \* the file at TEMP_VIDEO_FILENAME
    gen,         \* number of encoder outputs started so far (content identity)
    j,           \* local: the fetched JSON
    events,      \* local: result of build_event_list
    grouped,     \* local: result of filter_and_sort_events
    lines,       \* local: the text lines handed to render_text_image
    img,         \* local: the rendered image
    failStage,   \* the step whose exception is being handled, or "none"
    failTime,    \* clock value when the last periodic cycle was abandoned, or NoTime
    interrupted, \* the operator pressed Ctrl+C
    cycleStartPublished, \* history: the published file when the iteration started
    cycleStartStaging,   \* history: the staging file when the iteration started
    iterWrote,   \* history: the file this iteration's encoder completed
    done,        \* history: the steps this iteration completed without error
    swapOutcome, \* history: how the swap of this iteration ended
    rendered     \* local: the frames make_frame has returned, one per second of t

vars == <<pc, run, now, published, staging, gen, j, events, grouped, lines, img,
          failStage, failTime, interrupted, cycleStartPublished,
          cycleStartStaging, iterWrote, done, swapOutcome, rendered>>

locals == <<j, events, grouped, lines, img, rendered>>

(***************************************************************************)
(* Program constants                                                       *)
(***************************************************************************)
VIDEO_WIDTH == 1280
VIDEO_HEIGHT == 720
FONT_SIZE_TITLE == 80
FONT_SIZE_LINE == 30
FONT_SIZE_CHANNEL == 15
LINE_SPACING == 20
CATEGORY_SPACING == 56
EVENT_SPACING == 20
KEEP_AFTER_HOURS == 3
RenderPadding == 40
MinImageHeight == 300
MinutesPerHour == 60
MinutesPerDay == 1440
TriggerLead == 5

(***************************************************************************)
(* Bounds of the model                                                     *)
(***************************************************************************)
MaxHours == 4       \* the clock stops MaxHours after StartBase
MaxGen == 3         \* encoder outputs started in one behaviour
MaxEvents == 2      \* raw event records per category in the generated inputs
MaxListLen == 3     \* events in the lists given to filter_and_sort_events alone

StartBase == 10 * MinutesPerHour
MaxTime == StartBase + MaxHours * MinutesPerHour
NoTime == 0 - 1

(***************************************************************************)
(* Text                                                                    *)
(***************************************************************************)
UpperChars == <<"A","B","C","D","E","F","G","H","I","J","K","L","M",
                "N","O","P","Q","R","S","T","U","V","W","X","Y","Z">>
LowerChars == <<"a","b","c","d","e","f","g","h","i","j","k","l","m",
                "n","o","p","q","r","s","t","u","v","w","x","y","z">>
DigitChars == <<"0","1","2","3","4","5","6","7","8","9">>

\* the characters of the model in code-point order
CharOrder == <<" ", "-", "/">> \o DigitChars \o <<":">> \o UpperChars
             \o <<"[", "]">> \o LowerChars

Ord(c) == CHOOSE i \in 1..Len(CharOrder) : CharOrder[i] = c

IsUpper(c) == \E i \in 1..Len(UpperChars) : UpperChars[i] = c

LowerChar(c) ==
    IF IsUpper(c)
    THEN LowerChars[CHOOSE i \in 1..Len(UpperChars) : UpperChars[i] = c]
    ELSE c

\* str.lower()
Lower(s) == [i \in 1..Len(s) |-> LowerChar(s[i])]

RECURSIVE LStrip(_)
LStrip(s) == IF s # <<>> /\ Head(s) = " " THEN LStrip(Tail(s)) ELSE s

RECURSIVE RStrip(_)
RStrip(s) == IF s # <<>> /\ s[Len(s)] = " " THEN RStrip(SubSeq(s, 1, Len(s) - 1)) ELSE s

\* str.strip()
Strip(s) == RStrip(LStrip(s))

StartsWith(s, p) == Len(s) >= Len(p) /\ SubSeq(s, 1, Len(p)) = p
EndsWith(s, p) == Len(s) >= Len(p) /\ SubSeq(s, Len(s) - Len(p) + 1, Len(s)) = p

\* sub in s
Contains(s, sub) ==
    \E i \in 1..(Len(s) - Len(sub) + 1) : SubSeq(s, i, i + Len(sub) - 1) = sub

\* s < t for Python strings: lexicographic by code point
RECURSIVE StrLess(_, _)
StrLess(s, t) ==
    IF t = <<>> THEN FALSE
    ELSE IF s = <<>> THEN TRUE
    ELSE IF Head(s) = Head(t) THEN StrLess(Tail(s), Tail(t))
    ELSE Ord(Head(s)) < Ord(Head(t))

IsDigit(c) == \E i \in 1..10 : DigitChars[i] = c
DigitVal(c) == (CHOOSE i \in 1..10 : DigitChars[i] = c) - 1

\* dparser.parse(time_str).time() on the time strings of the model: "HH:MM"
\* gives the minute of the day, anything else raises.
ParseTime(s) ==
    IF /\ Len(s) = 5 /\ s[3] = ":"
       /\ \A i \in {1, 2, 4, 5} : IsDigit(s[i])
       /\ 10 * DigitVal(s[1]) + DigitVal(s[2]) < 24
       /\ 10 * DigitVal(s[4]) + DigitVal(s[5]) < 60
    THEN [ok |-> TRUE,
          minute |-> (10 * DigitVal(s[1]) + DigitVal(s[2])) * MinutesPerHour
                     + 10 * DigitVal(s[4]) + DigitVal(s[5])]
    ELSE [ok |-> FALSE, minute |-> 0]

\* start.strftime("%H:%M")
FormatHM(dt) ==
    LET m == dt % MinutesPerDay
        hh == m \div MinutesPerHour
        mm == m % MinutesPerHour
    IN <<DigitChars[(hh \div 10) + 1], DigitChars[(hh % 10) + 1], ":",
         DigitChars[(mm \div 10) + 1], DigitChars[(mm % 10) + 1]>>

S_TvShow == <<"t","v"," ","s","h","o","w">>
S_TvShows == <<"t","v"," ","s","h","o","w","s">>
S_NoUpcoming == <<"N","o"," ","u","p","c","o","m","i","n","g"," ","e","v","e","n","t","s">>
S_Sep == <<" ", "-", " ">>
S_ChanSep == <<" ", "/", " ">>
S_Indent == <<" ", " ">>

(***************************************************************************)
(* JSON values.  A field of a record is absent, null, a number or a        *)
(* string; a list element is a record ("dict") or something else.          *)
(***************************************************************************)
Absent == [t |-> "absent"]
Null == [t |-> "null"]
Num == [t |-> "num"]
Str(s) == [t |-> "str", s |-> s]
List(items) == [t |-> "list", items |-> items]
Dict(items) == [t |-> "dict", items |-> items]
ChannelRecord(name) == [t |-> "dict", name |-> name]
EventRecord(time, event, channels) ==
    [t |-> "dict", time |-> time, event |-> event, channels |-> channels]

\* d.get(key, "") for a field f of d
GetOrEmptyStr(f) == IF f.t = "absent" THEN Str(<<>>) ELSE f

\* x or [] : None, a missing key and the empty list all give []
OrEmptyList(c) ==
    IF c.t \in {"absent", "null"} \/ (c.t = "list" /\ c.items = <<>>)
    THEN List(<<>>)
    ELSE c

K_Day0 == "Friday 10th Oct 2025 - Schedule Time UK GMT"
K_Day1 == "Saturday 11th Oct 2025 - Schedule Time UK GMT"
K_NoDate == "Schedule"

\* dparser.parse(date_part, dayfirst=True, fuzzy=True).date() on the top keys
\* of the model; day 0 is 10 Oct 2025
ParseDateKey(key) ==
    IF key = K_Day0 THEN [ok |-> TRUE, date |-> 0]
    ELSE IF key = K_Day1 THEN [ok |-> TRUE, date |-> 1]
    ELSE [ok |-> FALSE, date |-> 0]

choose_date_from_top_key(json_obj, clock) ==
    IF json_obj = <<>> THEN [ok |-> FALSE, date |-> 0]
    ELSE LET parsed == ParseDateKey(json_obj[1].key)
         IN IF parsed.ok THEN [ok |-> TRUE, date |-> parsed.date]
            ELSE [ok |-> TRUE, date |-> clock \div MinutesPerDay]

\* the body of "for ev in evlist": raise, skip (continue) or append
EventOfRecord(ev, category, schedule_date) ==
    IF ev.t # "dict" THEN [st |-> "raise"]
    ELSE LET tf == GetOrEmptyStr(ev.time)
             ef == GetOrEmptyStr(ev.event)
         IN IF tf.t # "str" \/ ef.t # "str" THEN [st |-> "raise"]
            ELSE LET time_str == Strip(tf.s)
                     event_title == Strip(ef.s)
                     channels == OrEmptyList(ev.channels)
                     t == ParseTime(time_str)
                 IN IF time_str = <<>> THEN [st |-> "skip"]
                    ELSE IF ~t.ok THEN [st |-> "skip"]
                    ELSE [st |-> "append",
                          e |-> [category |-> category,
                                 dt |-> schedule_date * MinutesPerDay + t.minute,
                                 event |-> event_title,
                                 channels |-> channels]]

RECURSIVE EventLoop(_, _, _, _, _)
EventLoop(evlist, i, category, schedule_date, acc) ==
    IF i > Len(evlist) THEN [ok |-> TRUE, events |-> acc]
    ELSE LET r == EventOfRecord(evlist[i], category, schedule_date)
         IN IF r.st = "raise" THEN [ok |-> FALSE, events |-> acc]
            ELSE EventLoop(evlist, i + 1, category, schedule_date,
                           IF r.st = "append" THEN Append(acc, r.e) ELSE acc)

SkippedCategory(category) ==
    Contains(Lower(category), S_TvShow) \/ Contains(Lower(category), S_TvShows)

RECURSIVE CategoryLoop(_, _, _, _)
CategoryLoop(cats, i, schedule_date, acc) ==
    IF i > Len(cats) THEN [ok |-> TRUE, events |-> acc]
    ELSE LET c == cats[i]
         IN IF SkippedCategory(c.category) \/ c.evlist.t # "list"
            THEN CategoryLoop(cats, i + 1, schedule_date, acc)
            ELSE LET r == EventLoop(c.evlist.items, 1, c.category, schedule_date, acc)
                 IN IF ~r.ok THEN r
                    ELSE CategoryLoop(cats, i + 1, schedule_date, r.events)

RECURSIVE TopLoop(_, _, _, _)
TopLoop(json_obj, i, schedule_date, acc) ==
    IF i > Len(json_obj) THEN [ok |-> TRUE, events |-> acc]
    ELSE LET value == json_obj[i].value
         IN IF value.t # "dict" THEN TopLoop(json_obj, i + 1, schedule_date, acc)
            ELSE LET r == CategoryLoop(value.items, 1, schedule_date, acc)
                 IN IF ~r.ok THEN r
                    ELSE TopLoop(json_obj, i + 1, schedule_date, r.events)

\* [ok |-> FALSE] is an exception leaving build_event_list
build_event_list(json_obj, clock) ==
    LET d == choose_date_from_top_key(json_obj, clock)
    IN IF ~d.ok THEN [ok |-> FALSE, events |-> <<>>]
       ELSE TopLoop(json_obj, 1, d.date, <<>>)

(***************************************************************************)
(* filter_and_sort_events                                                  *)
(***************************************************************************)
\* the window closed at the boundary instead of open
KeepsStrict(e, clock) == e.dt + KEEP_AFTER_HOURS * MinutesPerHour > clock

Keeps(e, clock) == e.dt + KEEP_AFTER_HOURS * MinutesPerHour >= clock

RECURSIVE KeepLoop(_, _, _, _)
KeepLoop(evs, i, clock, keep) ==
    IF i > Len(evs) THEN keep
    ELSE KeepLoop(evs, i + 1, clock,
                  IF Keeps(evs[i], clock) THEN Append(keep, evs[i]) ELSE keep)

\* the sort key without the start time
KeyLessNoTime(x, y) == StrLess(Lower(x.category), Lower(y.category))

\* key(x) < key(y) for key = (category.lower(), dt)
KeyLess(x, y) ==
    \/ StrLess(Lower(x.category), Lower(y.category))
    \/ Lower(x.category) = Lower(y.category) /\ x.dt < y.dt

\* insert e behind every element whose key is not greater (sorted() is stable)
RECURSIVE InsertSorted(_, _)
InsertSorted(sorted, e) ==
    IF sorted = <<>> THEN <<e>>
    ELSE IF KeyLess(e, Head(sorted)) THEN <<e>> \o sorted
    ELSE <<Head(sorted)>> \o InsertSorted(Tail(sorted), e)

RECURSIVE SortedByKey(_, _, _)
SortedByKey(evs, i, acc) ==
    IF i > Len(evs) THEN acc
    ELSE SortedByKey(evs, i + 1, InsertSorted(acc, evs[i]))

\* grouped.setdefault(e["category"], []).append(e) on an insertion-ordered dict
SetDefaultAppend(g, e) ==
    IF \E k \in 1..Len(g) : g[k].category = e.category
    THEN [k \in 1..Len(g) |->
            IF g[k].category = e.category
            THEN [category |-> g[k].category, evs |-> Append(g[k].evs, e)]
            ELSE g[k]]
    ELSE Append(g, [category |-> e.category, evs |-> <<e>>])

RECURSIVE GroupLoop(_, _, _)
GroupLoop(evs, i, g) ==
    IF i > Len(evs) THEN g
    ELSE GroupLoop(evs, i + 1, SetDefaultAppend(g, evs[i]))

filter_and_sort_events(evs, clock) ==
    LET keep == KeepLoop(evs, 1, clock, <<>>)
        keep_sorted == SortedByKey(keep, 1, <<>>)
    IN GroupLoop(keep_sorted, 1, <<>>)

(***************************************************************************)
(* build_text_lines                                                        *)
(***************************************************************************)
\* the names collected from e["channels"]: JSON fields, not yet joined
RECURSIVE ChannelNamesOfList(_, _, _)
ChannelNamesOfList(items, i, acc) ==
    IF i > Len(items) THEN acc
    ELSE LET c == items[i]
         IN ChannelNamesOfList(items, i + 1,
                IF c.t = "dict" THEN Append(acc, GetOrEmptyStr(c.name))
                ELSE IF c.t = "str" THEN Append(acc, c)
                ELSE acc)

ChannelNames(channels) ==
    LET channels_list == OrEmptyList(channels)
    IN IF channels_list.t = "list" THEN ChannelNamesOfList(channels_list.items, 1, <<>>)
       ELSE IF channels_list.t = "dict" /\ channels_list.name.t # "absent"
            THEN <<channels_list.name>>
       ELSE <<>>

\* "if name": None and "" are false, a number is taken as non-zero
Truthy(f) == (f.t = "str" /\ f.s # <<>>) \/ f.t = "num"

RECURSIVE JoinLoop(_, _, _)
JoinLoop(names, i, acc) ==
    IF i > Len(names) THEN acc
    ELSE JoinLoop(names, i + 1,
                  IF i = 1 THEN names[i].s ELSE acc \o S_ChanSep \o names[i].s)

\* " / ".join([name for name in channel_names if name]); str.join raises
\* TypeError on an element that is not a string
JoinChannels(channel_names) ==
    LET named == SelectSeq(channel_names, Truthy)
    IN IF \E i \in 1..Len(named) : named[i].t # "str"
       THEN [ok |-> FALSE, s |-> <<>>]
       ELSE [ok |-> TRUE, s |-> JoinLoop(named, 1, <<>>)]

RECURSIVE EventLines(_, _, _)
EventLines(evs, i, acc) ==
    IF i > Len(evs) THEN [ok |-> TRUE, lines |-> acc]
    ELSE LET e == evs[i]
             channels == JoinChannels(ChannelNames(e.channels))
             line == FormatHM(e.dt) \o S_Sep \o e.event
         IN IF ~channels.ok THEN [ok |-> FALSE, lines |-> acc]
            ELSE EventLines(evs, i + 1,
                    acc \o <<line,
                             IF channels.s # <<>> THEN S_Indent \o channels.s
                             ELSE S_Indent,
                             <<>> >>)

RECURSIVE GroupLines(_, _, _)
GroupLines(g, i, acc) ==
    IF i > Len(g) THEN [ok |-> TRUE, lines |-> acc]
    ELSE LET r == EventLines(g[i].evs, 1, Append(acc, <<"[">> \o g[i].category \o <<"]">>))
         IN IF ~r.ok THEN r
            ELSE GroupLines(g, i + 1, Append(r.lines, <<>>))

\* [ok |-> FALSE] is an exception leaving build_text_lines
build_text_lines(g) == GroupLines(g, 1, <<>>)

(***************************************************************************)
(* render_text_image                                                       *)
(***************************************************************************)
\* which branch of the measuring loop a line takes
LineType(line) ==
    IF StartsWith(line, <<"[">>) /\ EndsWith(line, <<"]">>) THEN "title"
    ELSE IF StartsWith(line, S_Indent) THEN "channel"
    ELSE IF Strip(line) = <<>> THEN "empty"
    ELSE "event"

FontSize(line_type) ==
    IF line_type = "title" THEN FONT_SIZE_TITLE
    ELSE IF line_type = "channel" THEN FONT_SIZE_CHANNEL
    ELSE FONT_SIZE_LINE

\* font.getbbox(line) of the rasterizer: the nominal height of the font and
\* half of it for each character
BBoxW(line, line_type) == Len(line) * (FontSize(line_type) \div 2)
BBoxH(line, line_type) == FontSize(line_type)

LineMetric(line) ==
    LET ty == LineType(line)
    IN IF ty = "empty" THEN [line |-> line, w |-> 0, h |-> EVENT_SPACING, type |-> ty]
       ELSE [line |-> line, w |-> BBoxW(line, ty), h |-> BBoxH(line, ty), type |-> ty]

\* the vertical advance of one measured line, as the measuring loop adds it
MeasureAdvance(m) ==
    IF m.type = "title" THEN m.h + CATEGORY_SPACING
    ELSE IF m.type = "empty" THEN EVENT_SPACING
    ELSE m.h + LINE_SPACING

\* the vertical advance of one line in the drawing loop
DrawAdvance(m) ==
    IF m.type = "title" THEN m.h + CATEGORY_SPACING
    ELSE IF m.type = "empty" THEN m.h
    ELSE m.h + LINE_SPACING

RECURSIVE SumAdvance(_, _)
SumAdvance(metrics, n) ==
    IF n = 0 THEN 0 ELSE SumAdvance(metrics, n - 1) + MeasureAdvance(metrics[n])

RECURSIVE DrawOffset(_, _)
DrawOffset(metrics, n) ==
    IF n = 0 THEN 0 ELSE DrawOffset(metrics, n - 1) + DrawAdvance(metrics[n])

Max(a, b) == IF a >= b THEN a ELSE b

RECURSIVE MaxWidth(_, _)
MaxWidth(metrics, n) ==
    IF n = 0 THEN 0 ELSE Max(MaxWidth(metrics, n - 1), metrics[n].w)

\* the image: its size and what was drawn where (empty lines draw nothing)
render_text_image(text_lines, width, padding) ==
    LET line_metrics == [i \in 1..Len(text_lines) |-> LineMetric(text_lines[i])]
        y == padding + SumAdvance(line_metrics, Len(line_metrics)) + padding
        max_w == MaxWidth(line_metrics, Len(line_metrics))
    IN [w |-> Max(width, max_w + padding * 2),
        h |-> Max(y, MinImageHeight),
        blocks |-> [i \in 1..Len(line_metrics) |->
                      [line |-> line_metrics[i].line,
                       type |-> line_metrics[i].type,
                       y |-> padding + DrawOffset(line_metrics, i - 1)]]]

(***************************************************************************)
(* make_scrolling_video_from_image: the arithmetic of make_frame.          *)
(* A Python float is an IEEE-754 double: every operation returns the exact *)
(* result rounded to RoundBits significant bits, ties to even.  A value is *)
(* held as its integer part and the bits after the binary point, so the    *)
(* rounding is computed bit by bit.                                        *)
(***************************************************************************)
VIDEO_DURATION_SECONDS == 120
PixelsPerSecond == 100
LoopCount == 3
RoundBits == 53

RECURSIVE BitLen(_)
BitLen(n) == IF n = 0 THEN 0 ELSE 1 + BitLen(n \div 2)

\* the number of zero bits before the first one bit
LeadingZeros(fb) ==
    Cardinality({i \in 1..Len(fb) : \A k \in 1..i : fb[k] = 0})

IsZeroBits(fb) == \A i \in 1..Len(fb) : fb[i] = 0

FlipBits(fb) == [i \in 1..Len(fb) |-> 1 - fb[i]]

\* one unit in the last place added to fb; carry goes to the integer part
Increment(fb) ==
    LET ones == Cardinality({i \in 1..Len(fb) : \A k \in i..Len(fb) : fb[k] = 1})
        z == Len(fb) - ones
    IN [carry |-> IF z = 0 THEN 1 ELSE 0,
        fb |-> [i \in 1..Len(fb) |-> IF i < z THEN fb[i] ELSE IF i = z THEN 1 ELSE 0]]

\* the nearest double of the exact value x, ties to even
RoundDouble(x) ==
    LET keep == IF x.ip > 0 THEN RoundBits - BitLen(x.ip)
                ELSE LeadingZeros(x.fb) + RoundBits
    IN IF Len(x.fb) <= keep THEN x
       ELSE LET kept == SubSeq(x.fb, 1, keep)
                guard == x.fb[keep + 1]
                sticky == \E i \in (keep + 2)..Len(x.fb) : x.fb[i] = 1
                last == IF keep = 0 THEN x.ip % 2 ELSE kept[keep]
                inc == Increment(kept)
            IN IF guard = 1 /\ (sticky \/ last = 1)
               THEN [ip |-> x.ip + inc.carry, fb |-> inc.fb]
               ELSE [ip |-> x.ip, fb |-> kept]

\* long division: the next n bits of r / d for r < d, and the remainder
RECURSIVE DivBits(_, _, _)
DivBits(r, d, n) ==
    IF n = 0 THEN [fb |-> <<>>, rem |-> r]
    ELSE IF n = 1 THEN [fb |-> <<(2 * r) \div d>>, rem |-> (2 * r) % d]
    ELSE LET hi == DivBits(r, d, n \div 2)
             lo == DivBits(hi.rem, d, n - n \div 2)
         IN [fb |-> hi.fb \o lo.fb, rem |-> lo.rem]

\* t / d for whole numbers t >= 0, d > 0: enough bits of the quotient to
\* round, and one more bit that tells whether anything is left
FloatDiv(t, d) ==
    LET q == DivBits(t % d, d, RoundBits + BitLen(d) + 1)
    IN RoundDouble([ip |-> t \div d,
                    fb |-> Append(q.fb, IF q.rem = 0 THEN 0 ELSE 1)])

\* x % 1.0 for x >= 0: the fractional part, always exact
FloatMod1(x) == [ip |-> 0, fb |-> x.fb]

\* the bits fb times the whole number s plus the carry c >= 0 coming from the
\* bits after them: the low half first, its carry into the high half
RECURSIVE MulBits(_, _, _)
MulBits(fb, s, c) ==
    CASE c >= 0 ->
        IF fb = <<>> THEN [carry |-> c, fb |-> <<>>]
        ELSE IF Len(fb) = 1
        THEN [carry |-> (fb[1] * s + c) \div 2, fb |-> <<(fb[1] * s + c) % 2>>]
        ELSE LET h == Len(fb) \div 2
                 lo == MulBits(SubSeq(fb, h + 1, Len(fb)), s, c)
                 hi == MulBits(SubSeq(fb, 1, h), s, lo.carry)
             IN [carry |-> hi.carry, fb |-> hi.fb \o lo.fb]

\* x * s for a whole number s
FloatMul(x, s) ==
    LET m == MulBits(x.fb, s, 0)
    IN RoundDouble([ip |-> x.ip * s + m.carry, fb |-> m.fb])

\* h - x for a whole number h: the sign and the rounded magnitude
FloatSubFrom(h, x) ==
    IF IsZeroBits(x.fb)
    THEN [neg |-> x.ip > h,
          mag |-> [ip |-> IF x.ip > h THEN x.ip - h ELSE h - x.ip, fb |-> <<>>]]
    ELSE IF x.ip < h
    THEN [neg |-> FALSE,
          mag |-> RoundDouble([ip |-> h - 1 - x.ip,
                               fb |-> Increment(FlipBits(x.fb)).fb])]
    ELSE [neg |-> TRUE, mag |-> RoundDouble([ip |-> x.ip - h, fb |-> x.fb])]

\* int(y): truncation toward zero
IntOf(y) == IF y.neg THEN 0 - y.mag.ip ELSE y.mag.ip

\* total_scroll = start_y - end_y = H - (-img_h)
total_scroll(img_h) == VIDEO_HEIGHT + img_h

\* max(VIDEO_DURATION_SECONDS, total_scroll / 100.0): the int 120 while the
\* scroll is no longer than 12000 pixels, which InitFrames requires
single_loop_duration(img_h) == VIDEO_DURATION_SECONDS

total_duration(img_h) == single_loop_duration(img_h) * LoopCount

\* y = int(start_y - ((t / single_loop_duration) % 1.0) * total_scroll)
ScrollY(img_h, t) ==
    LET loop_progress == FloatMod1(FloatDiv(t, single_loop_duration(img_h)))
    IN IntOf(FloatSubFrom(VIDEO_HEIGHT,
                          FloatMul(loop_progress, total_scroll(img_h))))

\* the canvas after canvas.paste(img, (0, y)): image and canvas have the same
\* background, so the pixels are the drawn text blocks that reach the screen,
\* each at its screen row
Paste(im, y) ==
    {[line |-> im.blocks[i].line, type |-> im.blocks[i].type,
      y |-> y + im.blocks[i].y] :
        i \in {k \in 1..Len(im.blocks) :
                 /\ im.blocks[k].type # "empty"
                 /\ y + im.blocks[k].y < VIDEO_HEIGHT
                 /\ y + im.blocks[k].y
                      + BBoxH(im.blocks[k].line, im.blocks[k].type) > 0}}

\* the frame at t seconds
make_frame(im, t) ==
    LET y == ScrollY(im.h, t)
    IN IF y < VIDEO_HEIGHT /\ y + im.h > 0 THEN Paste(im, y) ELSE {}

(***************************************************************************)
(* Inputs: the JSON documents the fetch can return                         *)
(***************************************************************************)
C_Golf == <<"G","o","l","f">>
C_golf == <<"g","o","l","f">>
C_Boxing == <<"B","o","x","i","n","g">>
C_TvShows == <<"T","V"," ","S","h","o","w","s">>
T_Derby == <<"D","e","r","b","y">>
T_Open == <<"O","p","e","n">>
T_Blank == <<" ", " ">>
H_1200 == <<"1","2",":","0","0">>
H_0900 == <<" ","0","9",":","0","0"," ">>
H_TBA == <<"T","B","A">>
N_Sky == <<"S","k","y">>
N_BBC == <<"B","B","C">>

R_Derby == EventRecord(Str(H_1200), Str(T_Derby), List(<<Str(N_Sky)>>))
R_Open == EventRecord(Str(H_0900), Str(T_Open),
                      List(<<ChannelRecord(Str(N_BBC)), ChannelRecord(Absent), Str(N_Sky)>>))
R_OneChannel == EventRecord(Str(H_1200), Str(T_Open), ChannelRecord(Str(N_BBC)))
R_NumChannel == EventRecord(Str(H_1200), Str(T_Derby), List(<<ChannelRecord(Num)>>))
R_NoTime == EventRecord(Absent, Str(T_Open), Absent)
R_BlankTime == EventRecord(Str(T_Blank), Str(T_Derby), Null)
R_BadTime == EventRecord(Str(H_TBA), Str(T_Derby), Absent)
R_NullTime == EventRecord(Null, Str(T_Derby), Absent)
R_NoTitle == EventRecord(Str(H_1200), Absent, Absent)
R_BlankTitle == EventRecord(Str(H_1200), Str(T_Blank), Absent)
R_NullTitle == EventRecord(Str(H_1200), Null, Absent)
R_NotARecord == Str(T_Open)

RawRecords == {R_Derby, R_Open, R_OneChannel, R_NumChannel, R_NoTime, R_BlankTime,
               R_BadTime, R_NullTime, R_NoTitle, R_BlankTitle, R_NullTitle,
               R_NotARecord}

SeqUpTo(S, n) == UNION {[1..k -> S] : k \in 0..n}

Category(name, evlist) == [category |-> name, evlist |-> evlist]
Top(key, value) == [key |-> key, value |-> value]

D_Empty == <<>>
D_NoCategories == <<Top(K_Day0, Dict(<<>>))>>
D_NotADict == <<Top(K_NoDate, Str(T_Open))>>
D_NotAList == <<Top(K_Day0, Dict(<<Category(C_Golf, Null)>>))>>
D_Good == <<Top(K_Day0, Dict(<<Category(C_Golf, List(<<R_Derby, R_Open>>))>>))>>
D_NullTime == <<Top(K_Day0, Dict(<<Category(C_Golf, List(<<R_Derby, R_NullTime>>))>>))>>
D_Mixed ==
    <<Top(K_NoDate, Dict(<<Category(C_golf, List(<<R_Derby>>)),
                           Category(C_TvShows, List(<<R_Open, R_NotARecord>>)),
                           Category(C_Boxing, List(<<R_Derby, R_Open>>)),
                           Category(C_Golf, List(<<R_OneChannel, R_Open>>))>>))>>
D_Tomorrow == <<Top(K_Day1, Dict(<<Category(C_Boxing, List(<<R_Open, R_Derby>>))>>))>>

\* what the periodic fetch returns in the model of the cycle
FetchDocs == {D_Empty, D_NoCategories, D_Good, D_NullTime}

\* the inputs of the normalizer and the layout on their own
PipeDocs ==
    {D_Empty, D_NoCategories, D_NotADict, D_NotAList, D_Mixed, D_Tomorrow}
    \cup {<<Top(K_Day0, Dict(<<Category(c, List(l))>>))>> :
            c \in {C_Golf, C_TvShows}, l \in SeqUpTo(RawRecords, MaxEvents)}

\* 12:00 + 3 h is 15:00: before, at and just after the end of the window
PipeNows == {11 * MinutesPerHour, 15 * MinutesPerHour, 15 * MinutesPerHour + 1}

(***************************************************************************)
(* Files and the clock                                                     *)
(***************************************************************************)
AbsentFile == [state |-> "absent", gen |-> 0]
PartialFile(g) == [state |-> "partial", gen |-> g]
CompleteFile(g) == [state |-> "complete", gen |-> g]

\* os.path.isfile
IsFile(f) == f.state # "absent"

NoImage == [w |-> 0, h |-> 0, blocks |-> <<>>]

\* (now.replace(minute=0, second=0, microsecond=0) + timedelta(hours=1))
NextHour(t) == (t \div MinutesPerHour) * MinutesPerHour + MinutesPerHour

\* target_time of sleep_until_5_mins_before_hour
Target55(t) ==
    LET target_time == NextHour(t) - TriggerLead
    IN IF t >= target_time THEN target_time + MinutesPerHour ELSE target_time

\* minutes one encoding takes: the usual two, or so slow that it passes the hour
EncodeMinutes == {2, 8}

StartTimes == {StartBase, StartBase + 57}

(***************************************************************************)
(* The process: __main__ and create_schedule_cycle                         *)
(***************************************************************************)
Init ==
    /\ pc = "start"
    /\ run = "cycle"
    /\ now \in StartTimes
    /\ published \in {AbsentFile, CompleteFile(0)}
    /\ staging = AbsentFile
    /\ gen = 0
    /\ j = <<>> /\ events = <<>> /\ grouped = <<>> /\ lines = <<>> /\ img = NoImage
    /\ rendered = <<>>
    /\ failStage = "none"
    /\ failTime = NoTime
    /\ interrupted = FALSE
    /\ cycleStartPublished = published
    /\ cycleStartStaging = staging
    /\ iterWrote = AbsentFile
    /\ done = {}
    /\ swapOutcome = "none"

\* no handler: the exception leaves the process
RaiseUncaught(stage, t) ==
    /\ failStage' = stage
    /\ failTime' = t
    /\ pc' = "stopped"

\* "except Exception" of the running generation: the first-run handler falls
\* through to create_schedule_cycle(), the handler of the cycle sleeps
Raise(stage, t) ==
    /\ failStage' = stage
    /\ IF run = "initial"
       THEN pc' = "sleep55" /\ failTime' = failTime
       ELSE pc' = "err_sleep" /\ failTime' = t

\* every generation encodes straight to VIDEO_FILENAME
AlwaysWritesPublished == TRUE

\* the path make_scrolling_video_from_image is given
WritesPublished == run = "initial"

\* if not os.path.isfile(VIDEO_FILENAME): initial generation; then the cycle
Start ==
    /\ pc = "start"
    /\ IF ~IsFile(published)
       THEN pc' = "fetch" /\ run' = "initial"
       ELSE pc' = "sleep55" /\ run' = "cycle"
    /\ UNCHANGED <<done, now, published, staging, gen, locals, failStage, failTime,
                   interrupted, cycleStartPublished, cycleStartStaging, iterWrote,
                   swapOutcome>>

\* top of "while True": sleep_until_5_mins_before_hour(); the locals of the
\* previous iteration are dead and are cleared here
SleepUntil5MinsBeforeHour ==
    /\ pc = "sleep55"
    /\ Target55(now) <= MaxTime
    /\ now' = Target55(now)
    /\ pc' = "fetch"
    /\ run' = "cycle"
    /\ j' = <<>> /\ events' = <<>> /\ grouped' = <<>> /\ lines' = <<>> /\ img' = NoImage
    /\ rendered' = <<>>
    /\ failStage' = "none"
    /\ cycleStartPublished' = published
    /\ cycleStartStaging' = staging
    /\ iterWrote' = AbsentFile
    /\ swapOutcome' = "none"
    /\ done' = {}
    /\ UNCHANGED <<published, staging, gen, failTime, interrupted>>

FetchScheduleJson ==
    /\ pc = "fetch"
    /\ \E doc \in FetchDocs : j' = doc
    /\ pc' = "build"
    /\ failTime' = NoTime
    /\ done' = done \cup {"fetch"}
    /\ UNCHANGED <<rendered, run, now, published, staging, gen, events, grouped, lines, img,
                   failStage, interrupted, cycleStartPublished, cycleStartStaging,
                   iterWrote, swapOutcome>>

\* requests raises: timeout, connection error, raise_for_status, bad JSON
FetchFails ==
    /\ pc = "fetch"
    /\ Raise("fetch", now)
    /\ UNCHANGED <<done, run, now, published, staging, gen, locals, interrupted,
                   cycleStartPublished, cycleStartStaging, iterWrote, swapOutcome>>

BuildEventList ==
    /\ pc = "build"
    /\ LET r == build_event_list(j, now)
       IN IF r.ok
          THEN /\ events' = r.events
               /\ pc' = "filter"
               /\ done' = done \cup {"build"}
               /\ UNCHANGED <<failStage, failTime>>
          ELSE /\ Raise("build", now)
               /\ UNCHANGED <<events, done>>
    /\ UNCHANGED <<rendered, run, now, published, staging, gen, j, grouped, lines, img,
                   interrupted, cycleStartPublished, cycleStartStaging, iterWrote,
                   swapOutcome>>

FilterAndSortEvents ==
    /\ pc = "filter"
    /\ grouped' = filter_and_sort_events(events, now)
    /\ pc' = "lines"
    /\ done' = done \cup {"filter"}
    /\ UNCHANGED <<rendered, run, now, published, staging, gen, j, events, lines, img,
                   failStage, failTime, interrupted, cycleStartPublished, cycleStartStaging,
                   iterWrote, swapOutcome>>

\* lines = build_text_lines(grouped); if not lines: lines = ["No upcoming events"]
BuildTextLines ==
    /\ pc = "lines"
    /\ LET r == build_text_lines(grouped)
       IN IF r.ok
          THEN /\ lines' = IF r.lines = <<>> THEN <<S_NoUpcoming>> ELSE r.lines
               /\ pc' = "render"
               /\ done' = done \cup {"lines"}
               /\ UNCHANGED <<failStage, failTime>>
          ELSE /\ Raise("lines", now)
               /\ UNCHANGED <<lines, done>>
    /\ UNCHANGED <<rendered, run, now, published, staging, gen, j, events, grouped, img,
                   interrupted, cycleStartPublished, cycleStartStaging, iterWrote,
                   swapOutcome>>

RenderTextImage ==
    /\ pc = "render"
    /\ img' = render_text_image(lines, VIDEO_WIDTH, RenderPadding)
    /\ pc' = "encode"
    /\ done' = done \cup {"render"}
    /\ UNCHANGED <<rendered, run, now, published, staging, gen, j, events, grouped, lines,
                   failStage, failTime, interrupted, cycleStartPublished,
                   cycleStartStaging, iterWrote, swapOutcome>>

\* an exception of the environment (MemoryError, the rasterizer) in a step
\* between the fetch and the encoder
StepRaises ==
    /\ pc \in {"build", "filter", "lines", "render"}
    /\ Raise(pc, now)
    /\ UNCHANGED <<done, run, now, published, staging, gen, locals, interrupted,
                   cycleStartPublished, cycleStartStaging, iterWrote, swapOutcome>>

\* make_scrolling_video_from_image up to the moment the encoder has opened
\* out_path: the file there is now a new, incomplete one
EncodeStart ==
    /\ pc = "encode"
    /\ gen < MaxGen
    /\ gen' = gen + 1
    /\ IF WritesPublished
       THEN published' = PartialFile(gen + 1) /\ UNCHANGED staging
       ELSE staging' = PartialFile(gen + 1) /\ UNCHANGED published
    /\ pc' = "encoding"
    /\ UNCHANGED <<done, run, now, locals, failStage, failTime, interrupted,
                   cycleStartPublished, cycleStartStaging, iterWrote, swapOutcome>>

\* img.save(tmp_img) or building the clip raises before out_path is opened
EncodeStartFails ==
    /\ pc = "encode"
    /\ Raise("encode", now)
    /\ UNCHANGED <<done, run, now, published, staging, gen, locals, interrupted,
                   cycleStartPublished, cycleStartStaging, iterWrote, swapOutcome>>

\* write_videofile returns: out_path holds the whole video
EncodeFinish ==
    /\ pc = "encoding"
    /\ \E d \in EncodeMinutes : now + d <= MaxTime /\ now' = now + d
    /\ IF WritesPublished
       THEN /\ published' = CompleteFile(published.gen)
            /\ iterWrote' = CompleteFile(published.gen)
            /\ pc' = "sleep55"
            /\ UNCHANGED staging
       ELSE /\ staging' = CompleteFile(staging.gen)
            /\ iterWrote' = CompleteFile(staging.gen)
            /\ pc' = "sleep00"
            /\ UNCHANGED published
    /\ done' = done \cup {"encode"}
    /\ UNCHANGED <<run, gen, locals, failStage, failTime, interrupted,
                   cycleStartPublished, cycleStartStaging, swapOutcome>>

\* the encoder's error is swallowed and the cycle goes on to the swap
EncodeFailsSwallowed ==
    /\ pc = "encoding"
    /\ \E d \in EncodeMinutes : now + d <= MaxTime /\ now' = now + d
    /\ pc' = IF WritesPublished THEN "sleep55" ELSE "sleep00"
    /\ UNCHANGED <<done, run, published, staging, gen, locals, failStage, failTime,
                   interrupted, cycleStartPublished, cycleStartStaging, iterWrote,
                   swapOutcome>>

\* write_videofile raises part-way: the incomplete file stays at out_path
EncodeFails ==
    /\ pc = "encoding"
    /\ \E d \in EncodeMinutes :
          /\ now + d <= MaxTime
          /\ now' = now + d
          /\ Raise("encode", now + d)
    /\ UNCHANGED <<done, run, published, staging, gen, locals, interrupted,
                   cycleStartPublished, cycleStartStaging, iterWrote, swapOutcome>>

SleepUntilTopOfHour ==
    /\ pc = "sleep00"
    /\ NextHour(now) <= MaxTime
    /\ now' = NextHour(now)
    /\ pc' = "swap_remove"
    /\ UNCHANGED <<done, run, published, staging, gen, locals, failStage, failTime,
                   interrupted, cycleStartPublished, cycleStartStaging, iterWrote,
                   swapOutcome>>

\* if os.path.isfile(VIDEO_FILENAME): os.remove(VIDEO_FILENAME)
RemoveOld ==
    /\ pc = "swap_remove"
    /\ published' = AbsentFile
    /\ pc' = "swap_rename"
    /\ UNCHANGED <<done, run, now, staging, gen, locals, failStage, failTime,
                   interrupted, cycleStartPublished, cycleStartStaging, iterWrote,
                   swapOutcome>>

\* os.remove raises (the file is open in a player, no permission)
RemoveFails ==
    /\ pc = "swap_remove"
    /\ IsFile(published)
    /\ Raise("remove", now)
    /\ swapOutcome' = "remove_failed"
    /\ UNCHANGED <<done, run, now, published, staging, gen, locals, interrupted,
                   cycleStartPublished, cycleStartStaging, iterWrote>>

\* os.rename(TEMP_VIDEO_FILENAME, VIDEO_FILENAME)
RenameTemp ==
    /\ pc = "swap_rename"
    /\ IsFile(staging)
    /\ published' = staging
    /\ staging' = AbsentFile
    /\ swapOutcome' = "ok"
    /\ pc' = "sleep55"
    /\ UNCHANGED <<done, run, now, gen, locals, failStage, failTime, interrupted,
                   cycleStartPublished, cycleStartStaging, iterWrote>>

\* os.rename raises (the staged file is missing or locked, no permission)
RenameFails ==
    /\ pc = "swap_rename"
    /\ Raise("rename", now)
    /\ swapOutcome' = "rename_failed"
    /\ UNCHANGED <<done, run, now, published, staging, gen, locals, interrupted,
                   cycleStartPublished, cycleStartStaging, iterWrote>>

\* the handler's own sleep_until_5_mins_before_hour(), then back to "while True"
HandlerSleep ==
    /\ pc = "err_sleep"
    /\ Target55(now) <= MaxTime
    /\ now' = Target55(now)
    /\ pc' = "sleep55"
    /\ failStage' = "none"
    /\ UNCHANGED <<done, run, published, staging, gen, locals, failTime, interrupted,
                   cycleStartPublished, cycleStartStaging, iterWrote, swapOutcome>>

\* Ctrl+C: KeyboardInterrupt is no Exception, no handler catches it
Interrupt ==
    /\ pc # "stopped"
    /\ pc' = "stopped"
    /\ interrupted' = TRUE
    /\ UNCHANGED <<done, run, now, published, staging, gen, locals, failStage, failTime,
                   cycleStartPublished, cycleStartStaging, iterWrote, swapOutcome>>

\* the script is started again; the files are what the last run left
Restart ==
    /\ pc = "stopped"
    /\ pc' = "start"
    /\ run' = "cycle"
    /\ interrupted' = FALSE
    /\ j' = <<>> /\ events' = <<>> /\ grouped' = <<>> /\ lines' = <<>> /\ img' = NoImage
    /\ rendered' = <<>>
    /\ failStage' = "none"
    /\ failTime' = NoTime
    /\ cycleStartPublished' = published
    /\ cycleStartStaging' = staging
    /\ iterWrote' = AbsentFile
    /\ swapOutcome' = "none"
    /\ done' = {}
    /\ UNCHANGED <<now, published, staging, gen>>

Next ==
    \/ Start
    \/ SleepUntil5MinsBeforeHour
    \/ FetchScheduleJson
    \/ FetchFails
    \/ BuildEventList
    \/ FilterAndSortEvents
    \/ BuildTextLines
    \/ RenderTextImage
    \/ StepRaises
    \/ EncodeStart
    \/ EncodeStartFails
    \/ EncodeFinish
    \/ EncodeFails
    \/ SleepUntilTopOfHour
    \/ RemoveOld
    \/ RemoveFails
    \/ RenameTemp
    \/ RenameFails
    \/ HandlerSleep
    \/ Interrupt
    \/ Restart

Spec == Init /\ [][Next]_vars

(***************************************************************************)
(* The normalizer and the layout on their own: one generation from a       *)
(* fetched document j at the instant now                                   *)
(***************************************************************************)
InitNormalize ==
    /\ pc = "build"
    /\ run = "cycle"
    /\ now \in PipeNows
    /\ j \in PipeDocs
    /\ published = CompleteFile(0)
    /\ staging = AbsentFile
    /\ gen = 0
    /\ events = <<>> /\ grouped = <<>> /\ lines = <<>> /\ img = NoImage
    /\ rendered = <<>>
    /\ failStage = "none"
    /\ failTime = NoTime
    /\ interrupted = FALSE
    /\ cycleStartPublished = published
    /\ cycleStartStaging = staging
    /\ iterWrote = AbsentFile
    /\ done = {"fetch"}
    /\ swapOutcome = "none"

NextNormalize ==
    \/ BuildEventList
    \/ FilterAndSortEvents
    \/ BuildTextLines
    \/ RenderTextImage

SpecNormalize == InitNormalize /\ [][NextNormalize]_vars

(***************************************************************************)
(* Properties                                                              *)
(***************************************************************************)
GenerationStages == {"fetch", "build", "filter", "lines", "render", "encode"}

\* C1: when a step from the fetch to the encoder raises in the periodic cycle,
\* the published file is, once the cycle is abandoned, the file it was when the
\* iteration started.
C1_FailedGenerationKeepsPublished ==
    (run = "cycle" /\ failStage \in GenerationStages)
        => published = cycleStartPublished

C1_Witness ==
    /\ pc = "err_sleep"
    /\ failStage = "encode"
    /\ published.state = "complete"
    /\ published = cycleStartPublished
    /\ staging.state = "partial"

\* C2: the published path never holds a partly written file: it is absent or
\* complete in every state, the first-run generation included.
C2_PublishedAbsentOrComplete == published.state \in {"absent", "complete"}

\* C3: whatever the outcome of the swap, a published file that existed before
\* it is afterwards the complete previous file or the complete new one, never
\* missing.
C3_SwapAllOrNothing ==
    (swapOutcome # "none" /\ IsFile(cycleStartPublished))
        => /\ IsFile(published)
           /\ published \in {cycleStartPublished, iterWrote}

\* C4: in the periodic cycle the published path changes only in an iteration
\* whose steps from the fetch to the encoder all completed without error, and
\* after a successful swap the published file is the file this iteration's
\* encoder completed and the staging path is gone.
C4_SwapOnlyAfterCompleteIteration ==
    /\ [][(run = "cycle" /\ published' # published)
            => (done = GenerationStages /\ failStage = "none")]_vars
    /\ [](swapOutcome = "ok"
            => /\ published = iterWrote
               /\ iterWrote = CompleteFile(gen)
               /\ staging = AbsentFile)

\* a swap that replaced an existing file while an earlier iteration's output
\* was lying at the staging path when the iteration started
C4_Witness ==
    /\ swapOutcome = "ok"
    /\ IsFile(cycleStartPublished)
    /\ IsFile(cycleStartStaging)
    /\ published # cycleStartPublished
    /\ published # cycleStartStaging
    /\ published = iterWrote

\* the first instant after t that is five minutes before an hour boundary
FirstTriggerAfter(t) ==
    CHOOSE m \in (t + 1)..(t + MinutesPerHour) :
        m % MinutesPerHour = MinutesPerHour - TriggerLead

\* C5: the attempt that follows an abandoned periodic cycle starts at the first
\* trigger time after the failure.
C5_NextAttemptAtFirstTrigger ==
    (pc = "fetch" /\ run = "cycle" /\ failTime # NoTime)
        => now = FirstTriggerAfter(failTime)

\* C6: an error of a generation never ends the process: while it is handled
\* the process is waiting for a trigger, and the process is stopped only after
\* an operator interrupt.
C6_ErrorsNeverStopTheProcess ==
    /\ pc = "stopped" => interrupted
    /\ (failStage # "none" /\ ~interrupted) => pc \in {"err_sleep", "sleep55"}

C6_Witness ==
    /\ failStage = "rename"
    /\ pc = "err_sleep"
    /\ ~interrupted

InGrouped(e) ==
    \E g \in 1..Len(grouped) : \E k \in 1..Len(grouped[g].evs) : grouped[g].evs[k] = e

RECURSIVE GroupedCount(_)
GroupedCount(n) == IF n = 0 THEN 0 ELSE GroupedCount(n - 1) + Len(grouped[n].evs)

Filtered == pc \in {"lines", "render", "encode"}

\* C7: filter_and_sort_events keeps an event exactly when start + 3 hours >= now
\* for the one now of the call, the instant start + 3 hours included.
C7_KeptIffWithinWindow ==
    Filtered =>
        /\ \A i \in 1..Len(events) :
              InGrouped(events[i]) <=> (events[i].dt + 3 * 60 >= now)
        /\ GroupedCount(Len(grouped))
             = Cardinality({i \in 1..Len(events) : events[i].dt + 3 * 60 >= now})

C7_Witness ==
    /\ Filtered
    /\ \E i \in 1..Len(events) : events[i].dt + 3 * 60 = now /\ InGrouped(events[i])
    /\ \E i \in 1..Len(events) : events[i].dt + 3 * 60 < now /\ ~InGrouped(events[i])

\* the raw records of the categories build_event_list reads
RECURSIVE Flatten(_)
Flatten(seqs) == IF seqs = <<>> THEN <<>> ELSE Head(seqs) \o Flatten(Tail(seqs))

ReadRecords ==
    Flatten([i \in 1..Len(j) |->
        IF j[i].value.t # "dict" THEN <<>>
        ELSE Flatten([k \in 1..Len(j[i].value.items) |->
                LET c == j[i].value.items[k]
                IN IF c.evlist.t = "list" /\ ~Contains(Lower(c.category), S_TvShow)
                   THEN c.evlist.items ELSE <<>>])])

HasText(f) == f.t = "str" /\ Strip(f.s) # <<>>
IsRecord(ev) == ev.t = "dict"

Built == pc \in {"filter", "lines", "render", "encode"}

\* C8: a record without a time-of-day string or without a title gives no event:
\* no event has an empty title, and there are no more events than records that
\* have both.
C8_NoEventWithoutTimeOrTitle ==
    Built =>
        /\ \A i \in 1..Len(events) : events[i].event # <<>>
        /\ \A g \in 1..Len(grouped) : \A k \in 1..Len(grouped[g].evs) :
              grouped[g].evs[k].event # <<>>
        /\ Len(events) <= Cardinality({i \in 1..Len(ReadRecords) :
                              /\ IsRecord(ReadRecords[i])
                              /\ HasText(ReadRecords[i].time)
                              /\ HasText(ReadRecords[i].event)})

\* a record none of whose fields is null or of a wrong type, with a time that parses
WellFormed(ev) ==
    /\ IsRecord(ev)
    /\ ev.time.t = "str" /\ ParseTime(Strip(ev.time.s)).ok
    /\ ev.event.t \in {"str", "absent"}

\* C9: malformed records never make build_event_list fail: for a document with
\* a top-level key it returns, and it returns one event for each well-formed
\* record.
C9_MalformedRecordsNeverFatal ==
    (j # <<>> /\ pc # "build") =>
        /\ failStage # "build"
        /\ Len(events) = Cardinality({i \in 1..Len(ReadRecords) :
                                        WellFormed(ReadRecords[i])})

\* C10: when no event survives, the empty document included, the cycle is not
\* aborted and the image has exactly one block, "No upcoming events", laid out
\* as a title.
C10_PlaceholderIsSingleTitleBlock ==
    /\ (j = <<>> /\ pc # "build") => failStage = "none"
    /\ (pc = "encode" /\ grouped = <<>>) =>
          /\ Len(img.blocks) = 1
          /\ img.blocks[1].line = S_NoUpcoming
          /\ img.blocks[1].type = "title"

(***************************************************************************)
(* filter_and_sort_events on its own, for any list of events               *)
(***************************************************************************)
FilterEvents ==
    {[category |-> c, dt |-> d, event |-> T_Derby, channels |-> List(<<>>)] :
        c \in {C_Golf, C_golf, C_Boxing},
        d \in {9 * MinutesPerHour, 12 * MinutesPerHour, 14 * MinutesPerHour}}

InitFilter ==
    /\ pc = "filter"
    /\ run = "cycle"
    /\ now \in PipeNows
    /\ events \in SeqUpTo(FilterEvents, MaxListLen)
    /\ published = CompleteFile(0)
    /\ staging = AbsentFile
    /\ gen = 0
    /\ j = <<>> /\ grouped = <<>> /\ lines = <<>> /\ img = NoImage
    /\ rendered = <<>>
    /\ failStage = "none"
    /\ failTime = NoTime
    /\ interrupted = FALSE
    /\ cycleStartPublished = published
    /\ cycleStartStaging = staging
    /\ iterWrote = AbsentFile
    /\ done = {"fetch", "build"}
    /\ swapOutcome = "none"

NextFilter == FilterAndSortEvents

SpecFilter == InitFilter /\ [][NextFilter]_vars

\* C11: in the result of filter_and_sort_events the events of each group are
\* non-decreasing by start, the groups are in the order of their lower-cased
\* names, and names that differ only in letter case are separate groups, each
\* holding only the events of its own name.
C11_GroupsOrderedAndSorted ==
    Filtered =>
        /\ \A g \in 1..Len(grouped) :
              /\ grouped[g].evs # <<>>
              /\ \A k \in 1..Len(grouped[g].evs) :
                    grouped[g].evs[k].category = grouped[g].category
              /\ \A k \in 1..(Len(grouped[g].evs) - 1) :
                    grouped[g].evs[k].dt <= grouped[g].evs[k + 1].dt
        /\ \A g \in 1..(Len(grouped) - 1) :
              ~StrLess(Lower(grouped[g + 1].category), Lower(grouped[g].category))
        /\ \A g, h \in 1..Len(grouped) :
              g # h => grouped[g].category # grouped[h].category

\* two groups whose names differ only in case, one of them holding events that
\* came in the wrong order
C11_Witness ==
    /\ Filtered
    /\ \E g, h \in 1..Len(grouped) :
          /\ grouped[g].category # grouped[h].category
          /\ Lower(grouped[g].category) = Lower(grouped[h].category)
          /\ Len(grouped[g].evs) >= 2
          /\ \E a, b \in 1..Len(events) :
                /\ a < b
                /\ events[a].category = grouped[g].category
                /\ events[b].category = grouped[g].category
                /\ events[a].dt > events[b].dt
                /\ InGrouped(events[a]) /\ InGrouped(events[b])

(***************************************************************************)
(* The frames of one video: make_frame as write_videofile calls it, here   *)
(* at every whole second of the output (every FPS-th frame; these t are    *)
(* exact floats)                                                           *)
(***************************************************************************)
FrameCategories == <<C_Golf, C_golf, C_Boxing>>

\* n upcoming events, spread over the categories
FrameEvents(n) ==
    [i \in 1..n |->
        [category |-> FrameCategories[(i % Len(FrameCategories)) + 1],
         dt |-> 12 * MinutesPerHour + i,
         event |-> T_Derby,
         channels |-> List(<<Str(N_Sky)>>)]]

\* none (the placeholder image), one group, three groups (taller than the screen)
FrameSizes == {0, 1, Len(FrameCategories)}

InitFrames ==
    /\ pc = "encoding"
    /\ run = "cycle"
    /\ now = StartBase
    /\ j = <<>>
    /\ events \in {FrameEvents(n) : n \in FrameSizes}
    /\ grouped = filter_and_sort_events(events, now)
    /\ lines = IF build_text_lines(grouped).lines = <<>> THEN <<S_NoUpcoming>>
               ELSE build_text_lines(grouped).lines
    /\ img = render_text_image(lines, VIDEO_WIDTH, RenderPadding)
    /\ total_scroll(img.h) <= VIDEO_DURATION_SECONDS * PixelsPerSecond
    /\ rendered = <<>>
    /\ published = CompleteFile(0)
    /\ gen = 1
    /\ staging = PartialFile(gen)
    /\ failStage = "none"
    /\ failTime = NoTime
    /\ interrupted = FALSE
    /\ cycleStartPublished = published
    /\ cycleStartStaging = AbsentFile
    /\ iterWrote = AbsentFile
    /\ done = {"fetch", "build", "filter", "lines", "render"}
    /\ swapOutcome = "none"

\* VideoClip(make_frame, duration=total_duration): the encoder asks for the
\* frame of the next second
MakeFrame ==
    /\ pc = "encoding"
    /\ Len(rendered) < total_duration(img.h)
    /\ rendered' = Append(rendered, make_frame(img, Len(rendered)))
    /\ UNCHANGED <<pc, run, now, published, staging, gen, j, events, grouped, lines,
                   img, failStage, failTime, interrupted, cycleStartPublished,
                   cycleStartStaging, iterWrote, done, swapOutcome>>

NextFrames == MakeFrame

SpecFrames == InitFrames /\ [][NextFrames]_vars

\* C12: when the image is no taller than the screen, make_frame returns the
\* same frame for every t of the output: the video is static.
C12_StaticWhenImageFits ==
    (pc = "encoding" /\ img.h <= VIDEO_HEIGHT) =>
        \A k \in 1..Len(rendered) : rendered[k] = rendered[1]

\* C13: make_frame is periodic in the single-loop duration: the frame at
\* t + single_loop_duration is identical to the frame at t.
C13_PeriodicInLoopDuration ==
    pc = "encoding" =>
        \A k \in 1..Len(rendered) :
            k > single_loop_duration(img.h) =>
                rendered[k] = rendered[k - single_loop_duration(img.h)]

====
